---- MODULE Spec2Model ----
(***************************************************************************)
(* Model of the fixed-point crate (src/src/lib.rs): FixedPoint<T, D>, its  *)
(* string parser (FromStr), its formatter (Display), integer()/decimal(),  *)
(* the scalar division operator and the fixed! literal macro.              *)
(*                                                                         *)
(* Strings are sequences of one-character strings.  Machine integers keep  *)
(* their width: every arithmetic step of the code is modelled by an        *)
(* operator that returns [panic, val], where an overflow panics when the   *)
(* build has overflow checks (debug) and wraps modulo 2^bits when it has   *)
(* not (release).  isize is target dependent; the model fixes a 32-bit      *)
(* target, where isize holds every storage type T of the model, and        *)
(* computes each 32-bit step without leaving TLC's own integers.           *)
(***************************************************************************)
EXTENDS Integers, Naturals, Sequences, FiniteSets, TLC

VARIABLES
  ty,               \* the storage type T of the instantiation FixedPoint<T, D>
  D,                \* its decimal digit length
  overflow_checks,  \* whether the build traps on arithmetic overflow
  pc,               \* what the program has done so far
  origin,           \* how the current value was made
  input,            \* the string given to from_str
  parsed,           \* the result of from_str(input)
  value,            \* the current FixedPoint value: Ok(stored) or None
  text,             \* the result of formatting value
  reparsed,         \* the result of from_str(text)
  parts,            \* the results of value.integer() and value.decimal()
  divisor,          \* the scalar value was divided by
  quotient,         \* the result of value / divisor
  literal           \* the literal and the precision given to fixed!

vars == <<ty, D, overflow_checks, pc, origin, input, parsed, value, text,
          reparsed, parts, divisor, quotient, literal>>

----------------------------------------------------------------------------
(* Bounds of the model *)

\* largest decimal digit length D of a modelled instantiation FixedPoint<T, D>
MaxD == 10
\* longest input string drawn from the whole alphabet
MaxLen == 4
\* longest run of zeros after "0." in the long-fraction inputs
MaxZeros == 33
\* longest run of one repeated digit in the long-number inputs
MaxRun == 11
\* most digits on each side of the point of a literal given to fixed!
MaxGroup == 2
\* stored values built directly are those of magnitude <= MaxStored, a few
\* round numbers and the values at the limits of T
MaxStored == 120
\* scalar divisors are those of magnitude <= MaxDivisor and the limits of T
MaxDivisor == 3

----------------------------------------------------------------------------
(* Machine integers *)

\* width of isize on the modelled target
ISIZE_BITS == 32

Types == {"i8", "u8", "i16", "u16", "i32"}

Bits(t) ==
  CASE t = "i8" -> 8 [] t = "u8" -> 8 [] t = "i16" -> 16 [] t = "u16" -> 16
    [] t = "i32" -> 32 [] t = "isize" -> ISIZE_BITS

Signed(t) == t \in {"i8", "i16", "i32", "isize"}

\* T::MAX and T::MIN (every step of these stays below 2^31)
TMax(t) == IF Signed(t) THEN (2^(Bits(t) - 2) - 1) * 2 + 1 ELSE 2^Bits(t) - 1
TMin(t) == IF Signed(t) THEN (-TMax(t)) - 1 ELSE 0

InRange(t, x) == TMin(t) <= x /\ x <= TMax(t)

Min(a, b) == IF a <= b THEN a ELSE b

\* Rust's a / b, b # 0 and not MIN / -1: the quotient truncated toward zero.
\* Written on the floor division of TLA+ so that the most negative value,
\* which has no positive counterpart of the same width, is never negated.
RECURSIVE TruncDiv(_, _)
TruncDiv(a, b) ==
  IF b > 0 THEN IF a >= 0 \/ a % b = 0 THEN a \div b ELSE (a \div b) + 1
  ELSE IF a = b THEN 1
  ELSE IF a <= 0 /\ a > b THEN 0
  ELSE IF b < -2147483647 THEN 0
  ELSE -TruncDiv(a, -b)

\* Rust's a % b: the remainder has the sign of the dividend
TruncRem(a, b) == a - b * TruncDiv(a, b)

\* the exact sum a + b is a value of t
FitsAdd(t, a, b) ==
  IF a >= 0 /\ b >= 0 THEN a <= TMax(t) - b
  ELSE IF a < 0 /\ b < 0 THEN a >= TMin(t) - b
  ELSE InRange(t, a + b)

\* a + b modulo 2^bits
WrapAdd(t, a, b) ==
  IF FitsAdd(t, a, b) THEN a + b
  ELSE IF Signed(t)
       THEN IF a >= 0 THEN ((a - TMax(t)) - 1) + ((b - TMax(t)) - 1)
                      ELSE ((a + TMax(t)) + 1) + ((b + TMax(t)) + 1)
       ELSE IF a >= 0 THEN (a - TMax(t)) + (b - 1)
                      ELSE (a + TMax(t)) + (b + 1)

\* -a modulo 2^bits
WrapNeg(t, a) ==
  IF a = 0 THEN 0
  ELSE IF Signed(t) THEN IF a = TMin(t) THEN a ELSE -a
  ELSE (TMax(t) - a) + 1

\* the exact product a * b is a value of t
FitsMul(t, a, b) ==
  IF a = 0 \/ b = 0 THEN TRUE
  ELSE IF a > 0 /\ b > 0 THEN a <= TMax(t) \div b
  ELSE IF a < 0 /\ b < 0
       THEN a # TMin(t) /\ b # TMin(t) /\ (-a) <= TMax(t) \div (-b)
  ELSE IF a > 0 THEN b >= ((TMin(t) + a) - 1) \div a
  ELSE a >= ((TMin(t) + b) - 1) \div b

\* x modulo 2^bits, for a 32-bit x
Wrap(t, x) ==
  IF InRange(t, x) THEN x
  ELSE LET m == 2^Bits(t)
           r == x % m
       IN IF Signed(t) /\ r > TMax(t) THEN r - m ELSE r

\* a * b modulo 2^32 as an i32, on 16-bit and 8-bit limbs of the two's
\* complement representations (no step reaches 2^31)
WrapMul32(a, b) ==
  LET al == a % 65536
      ah == (a \div 65536) % 65536
      bl == b % 65536
      bh == (b \div 65536) % 65536
      bl0 == bl % 256
      bl1 == bl \div 256
      low == al * bl0 + ((al * bl1) % 256) * 256
      carry == (low \div 65536) + ((al * bl1) \div 256)
      cross == (ah * bl0 + ((ah * bl1) % 256) * 256) + (al * (bh % 256)
                 + ((al * (bh \div 256)) % 256) * 256)
      hi == (carry + (cross % 65536)) % 65536
      lo == low % 65536
  IN IF hi >= 32768 THEN (hi - 65536) * 65536 + lo ELSE hi * 65536 + lo

\* a * b modulo 2^bits
WrapMul(t, a, b) == Wrap(t, WrapMul32(a, b))

\* An arithmetic step of the code: the exact result when it is a value of t;
\* otherwise a panic (overflow checks) or the result modulo 2^bits
Mul(t, a, b, checks) ==
  IF FitsMul(t, a, b) THEN [panic |-> FALSE, val |-> a * b]
  ELSE IF checks THEN [panic |-> TRUE, val |-> 0]
  ELSE [panic |-> FALSE, val |-> WrapMul(t, a, b)]

Add(t, a, b, checks) ==
  IF FitsAdd(t, a, b) THEN [panic |-> FALSE, val |-> a + b]
  ELSE IF checks THEN [panic |-> TRUE, val |-> 0]
  ELSE [panic |-> FALSE, val |-> WrapAdd(t, a, b)]

Neg(t, a, checks) ==
  IF a = 0 \/ (Signed(t) /\ a # TMin(t)) THEN [panic |-> FALSE, val |-> -a]
  ELSE IF checks THEN [panic |-> TRUE, val |-> 0]
  ELSE [panic |-> FALSE, val |-> WrapNeg(t, a)]

Sub(t, a, b, checks) ==
  LET nb == WrapNeg(t, b)
  IN IF InRange(t, a - b) THEN [panic |-> FALSE, val |-> a - b]
     ELSE IF checks THEN [panic |-> TRUE, val |-> 0]
     ELSE [panic |-> FALSE, val |-> WrapAdd(t, a, nb)]

\* a / b and a % b: division by zero and MIN / -1 panic in every build
Div(t, a, b) ==
  IF b = 0 \/ (Signed(t) /\ a = TMin(t) /\ b = -1)
  THEN [panic |-> TRUE, val |-> 0]
  ELSE [panic |-> FALSE, val |-> TruncDiv(a, b)]

Rem(t, a, b) ==
  IF b = 0 \/ (Signed(t) /\ a = TMin(t) /\ b = -1)
  THEN [panic |-> TRUE, val |-> 0]
  ELSE [panic |-> FALSE, val |-> TruncRem(a, b)]

\* 10.pow(e) in type t: the exact power when it fits; otherwise a panic
\* (overflow checks) or the power modulo 2^bits
RECURSIVE Pow10(_, _, _)
Pow10(t, e, checks) ==
  IF e = 0 THEN [panic |-> FALSE, val |-> 1]
  ELSE LET p == Pow10(t, e - 1, checks)
       IN IF p.panic THEN p ELSE Mul(t, p.val, 10, checks)

----------------------------------------------------------------------------
(* Strings *)

Digits == <<"0", "1", "2", "3", "4", "5", "6", "7", "8", "9">>
DigitSet == {Digits[i] : i \in 1..10}
DigitVal(c) == (CHOOSE i \in 1..10 : Digits[i] = c) - 1
DigitChar(d) == Digits[d + 1]
Zeros(n) == [i \in 1..n |-> "0"]

\* str::split('.'): the pieces between the dots, empty pieces included
RECURSIVE Split(_)
Split(s) ==
  IF \A i \in 1..Len(s) : s[i] # "." THEN <<s>>
  ELSE LET k == CHOOSE i \in 1..Len(s) : s[i] = "." /\ \A j \in 1..(i - 1) : s[j] # "."
       IN <<SubSeq(s, 1, k - 1)>> \o Split(SubSeq(s, k + 1, Len(s)))

\* accumulate decimal digits into isize the way core::num does: positive
\* numbers upward, negative numbers downward, an overflow is an error
RECURSIVE Accumulate(_, _)
Accumulate(ds, neg) ==
  IF ds = <<>> THEN [ok |-> TRUE, val |-> 0]
  ELSE LET p == Accumulate(SubSeq(ds, 1, Len(ds) - 1), neg)
           d == DigitVal(ds[Len(ds)])
       IN IF ~p.ok \/ ~FitsMul("isize", p.val, 10)
             \/ ~FitsAdd("isize", p.val * 10, IF neg THEN -d ELSE d)
          THEN [ok |-> FALSE, val |-> 0]
          ELSE [ok |-> TRUE, val |-> IF neg THEN p.val * 10 - d ELSE p.val * 10 + d]

\* str::parse::<isize>(): an optional '+' or '-', then one or more digits
ParseIsize(s) ==
  IF s = <<>> THEN [ok |-> FALSE, val |-> 0]
  ELSE LET sign == s[1] \in {"+", "-"}
           ds == IF sign THEN SubSeq(s, 2, Len(s)) ELSE s
       IN IF ds = <<>> \/ \E i \in 1..Len(ds) : ds[i] \notin DigitSet
          THEN [ok |-> FALSE, val |-> 0]
          ELSE Accumulate(ds, s[1] = "-")

----------------------------------------------------------------------------
(* FixedPoint<T, D> *)

Ok(v) == [kind |-> "ok", val |-> v]
Err == [kind |-> "err", val |-> 0]
Panic == [kind |-> "panic", val |-> 0]
None == [kind |-> "none", val |-> 0]

\* T::try_from(v: isize).map(Self).map_err(|_| ())
TryFrom(t, v) == IF InRange(t, v) THEN Ok(v) ELSE Err

\* the scaling of the fractional field and the final sum (lines 126-138)
FromStrDecimal(t, d, int, negative, field, checks) ==
  LET dlen == Min(Len(field), 255)
      parsedField == ParseIsize(field)
  IN IF ~parsedField.ok THEN Err
     ELSE LET signedDec == IF int < 0 \/ negative
                           THEN Neg("isize", parsedField.val, checks)
                           ELSE [panic |-> FALSE, val |-> parsedField.val]
          IN IF signedDec.panic THEN Panic
             ELSE LET e == IF d >= dlen THEN d - dlen ELSE dlen - d
                      p == Pow10("isize", e, checks)
                  IN IF p.panic THEN Panic
                     ELSE LET scaled == IF d >= dlen
                                        THEN Mul("isize", signedDec.val, p.val, checks)
                                        ELSE Div("isize", signedDec.val, p.val)
                          IN IF scaled.panic THEN Panic
                             ELSE LET sum == Add("isize", int, scaled.val, checks)
                                  IN IF sum.panic THEN Panic
                                     ELSE TryFrom(t, sum.val)

\* <FixedPoint<T, D> as FromStr>::from_str
from_str(t, d, string, checks) ==
  LET negative == Len(string) > 0 /\ string[1] = "-"
      splitted == Split(string)
      first == ParseIsize(splitted[1])
  IN IF ~first.ok THEN Err
     ELSE LET p == Pow10("isize", d, checks)
          IN IF p.panic THEN Panic
             ELSE LET int == Mul("isize", first.val, p.val, checks)
                  IN IF int.panic THEN Panic
                     ELSE IF Len(splitted) = 1 THEN TryFrom(t, int.val)
                     ELSE FromStrDecimal(t, d, int.val, negative,
                                         splitted[2], checks)

\* FixedPoint::decimal_length
decimal_length(d) == d

\* FixedPoint::integer: self.0 / T::ten().pow(D)
integer(t, d, stored, checks) ==
  LET p == Pow10(t, d, checks)
  IN IF p.panic THEN p ELSE Div(t, stored, p.val)

\* faulty variant of decimal: the remainder that is never negative
decimal_euclidean(t, d, stored, checks) ==
  LET p == Pow10(t, d, checks)
  IN IF p.panic THEN p
     ELSE IF p.val <= 0 THEN Rem(t, stored, p.val)
     ELSE [panic |-> FALSE, val |-> stored % p.val]

\* FixedPoint::decimal: self.0 % T::ten().pow(D)
decimal(t, d, stored, checks) ==
  LET p == Pow10(t, d, checks)
  IN IF p.panic THEN p ELSE Rem(t, stored, p.val)

\* decimal digits of n >= 0
RECURSIVE NatToStr(_)
NatToStr(n) ==
  IF n < 10 THEN <<DigitChar(n)>>
  ELSE Append(NatToStr(n \div 10), DigitChar(n % 10))

\* decimal digits of the magnitude of n <= 0
RECURSIVE NegToStr(_)
NegToStr(n) ==
  IF n > -10 THEN <<DigitChar(-n)>>
  ELSE Append(NegToStr(TruncDiv(n, 10)), DigitChar(-TruncRem(n, 10)))

\* "{}" of an integer
IntToStr(n) == IF n < 0 THEN <<"-">> \o NegToStr(n) ELSE NatToStr(n)

\* faulty variant of PadZero: "{}", the width left out
PadZero_unpadded(n, width) == IntToStr(n)

\* "{:0width$}" of an integer: zeros after the sign up to width characters
PadZero(n, width) ==
  LET sign == IF n < 0 THEN <<"-">> ELSE <<>>
      ds == IF n < 0 THEN NegToStr(n) ELSE NatToStr(n)
      have == Len(sign) + Len(ds)
  IN IF have >= width THEN sign \o ds ELSE sign \o Zeros(width - have) \o ds

\* faulty variant of StripLoop: the zeros are stripped, the length is kept
RECURSIVE StripLoop_keeps_length(_, _, _)
StripLoop_keeps_length(dec, length, checks) ==
  IF TruncRem(dec, 10) # 0 THEN [panic |-> FALSE, dec |-> dec, length |-> length]
  ELSE StripLoop_keeps_length(TruncDiv(dec, 10), length, checks)

\* the loop of lines 160-163: strips the trailing zeros of decimal # 0 and
\* decrements the u8 length on each
RECURSIVE StripLoop(_, _, _)
StripLoop(dec, length, checks) ==
  IF TruncRem(dec, 10) # 0 THEN [panic |-> FALSE, dec |-> dec, length |-> length]
  ELSE LET l == Sub("u8", length, 1, checks)
       IN IF l.panic THEN [panic |-> TRUE, dec |-> dec, length |-> length]
          ELSE StripLoop(TruncDiv(dec, 10), l.val, checks)

TextOk(s) == [kind |-> "ok", val |-> s]
TextPanic == [kind |-> "panic", val |-> <<>>]
NoText == [kind |-> "none", val |-> <<>>]

\* i32::abs
abs(x, checks) ==
  IF x < 0 THEN Neg("i32", x, checks) ELSE [panic |-> FALSE, val |-> x]

\* faulty variant of fmt: without the branch of lines 164-170
fmt_unsigned_zero(t, d, stored, checks) ==
  LET rem == decimal(t, d, stored, checks)
      mag == abs(rem.val, checks)
  IN IF rem.panic \/ mag.panic THEN TextPanic
     ELSE LET int == integer(t, d, stored, checks)
          IN IF int.panic THEN TextPanic
             ELSE IF d = 0 \/ mag.val = 0
                  THEN TextOk(IntToStr(int.val) \o <<".", "0">>)
             ELSE LET st == StripLoop(mag.val, d, checks)
                  IN IF st.panic THEN TextPanic
                     ELSE TextOk(IntToStr(int.val) \o <<".">>
                                   \o PadZero(st.dec, st.length))

\* <FixedPoint<T, D> as Display>::fmt
fmt(t, d, stored, checks) ==
  LET rem == decimal(t, d, stored, checks)
      mag == abs(rem.val, checks)
  IN IF rem.panic \/ mag.panic THEN TextPanic
     ELSE LET int == integer(t, d, stored, checks)
          IN IF int.panic THEN TextPanic
             ELSE IF d = 0 \/ mag.val = 0
                  THEN TextOk(IntToStr(int.val) \o <<".", "0">>)
             ELSE LET st == StripLoop(mag.val, d, checks)
                  IN IF st.panic THEN TextPanic
                     ELSE IF int.val = 0 /\ stored < 0
                          THEN TextOk(<<"-", "0", ".">> \o PadZero(st.dec, st.length))
                     ELSE TextOk(IntToStr(int.val) \o <<".">>
                                   \o PadZero(st.dec, st.length))

\* faulty variant of div: the quotient rounded down
div_floor(t, stored, n) ==
  LET q == Div(t, stored, n)
  IN IF q.panic THEN Panic
     ELSE IF n > 0 THEN Ok(stored \div n) ELSE Ok(q.val)

\* <FixedPoint<T, D> as Div<T>>::div: Self(self.0 / div)
div(t, stored, n) ==
  LET q == Div(t, stored, n)
  IN IF q.panic THEN Panic ELSE Ok(q.val)

NoParts == [kind |-> "none", integer |-> 0, decimal |-> 0]

\* The fixed! macro (its code is in the macros crate).  A literal is its sign
\* and its text, digits with underscores and at most one '.'; the precision
\* is NoPrecision when the macro is given none.
NoPrecision == -1
NoLiteral == [negative |-> FALSE, token |-> <<>>, precision |-> NoPrecision]

\* the literal's text without its underscores
RECURSIVE WithoutUnderscores(_)
WithoutUnderscores(s) ==
  IF s = <<>> THEN <<>>
  ELSE IF s[1] = "_" THEN WithoutUnderscores(SubSeq(s, 2, Len(s)))
  ELSE <<s[1]>> \o WithoutUnderscores(SubSeq(s, 2, Len(s)))

\* the digits after the decimal point (none without a point)
FractionDigits(token) ==
  LET pieces == Split(WithoutUnderscores(token))
  IN IF Len(pieces) = 2 THEN pieces[2] ELSE <<>>

\* the D of the constant: the explicit precision, else the number of digits
\* after the decimal point
fixed_precision(token, precision) ==
  IF precision = NoPrecision THEN Len(FractionDigits(token)) ELSE precision

\* the number a string of digits writes, as long as it is below 2^31 (big
\* when it is not: no integer type of the model holds it)
RECURSIVE DecimalNumber(_)
DecimalNumber(ds) ==
  IF ds = <<>> THEN [big |-> FALSE, val |-> 0]
  ELSE LET p == DecimalNumber(SubSeq(ds, 1, Len(ds) - 1))
           d == DigitVal(ds[Len(ds)])
       IN IF p.big \/ p.val > (2147483647 - d) \div 10
          THEN [big |-> TRUE, val |-> 0]
          ELSE [big |-> FALSE, val |-> p.val * 10 + d]

\* faulty variant of fixed: the explicit precision is not used
fixed_inferred(negative, token, precision) ==
  LET magnitude == DecimalNumber(Split(WithoutUnderscores(token))[1]
                                   \o FractionDigits(token))
  IN IF magnitude.big THEN magnitude
     ELSE [big |-> FALSE,
           val |-> IF negative THEN -magnitude.val ELSE magnitude.val]

\* the stored integer of the constant: the integer digits followed by the
\* first D fractional digits (zeros added when there are less), read as one
\* number, negated for a negative literal
fixed(negative, token, precision) ==
  LET d == fixed_precision(token, precision)
      int == Split(WithoutUnderscores(token))[1]
      frac == FractionDigits(token)
      kept == IF Len(frac) >= d THEN SubSeq(frac, 1, d)
                                ELSE frac \o Zeros(d - Len(frac))
      magnitude == DecimalNumber(int \o kept)
  IN IF magnitude.big THEN magnitude
     ELSE [big |-> FALSE,
           val |-> IF negative THEN -magnitude.val ELSE magnitude.val]

----------------------------------------------------------------------------
(* Inputs *)

Alphabet == {"0", "1", "2", "-", "+", "."}

RECURSIVE StringsOfLen(_)
StringsOfLen(n) ==
  IF n = 0 THEN {<<>>}
  ELSE {Append(s, c) : s \in StringsOfLen(n - 1), c \in Alphabet}

ShortInputs == UNION {StringsOfLen(n) : n \in 0..MaxLen}

Repeat(c, n) == [i \in 1..n |-> c]

\* "0.00...0" and "0.00...01": fractional parts far longer than D
LongFractions ==
  {<<"0", ".">> \o Zeros(k) : k \in 1..MaxZeros}
    \cup {<<"0", ".">> \o Zeros(k) \o <<"1">> : k \in 1..MaxZeros}

\* "22...2", "-22...2" and "0.22...2": numbers up to and beyond isize
LongNumbers ==
  {Repeat("2", k) : k \in 1..MaxRun}
    \cup {<<"-">> \o Repeat("2", k) : k \in 1..MaxRun}
    \cup {<<"0", ".">> \o Repeat("2", k) : k \in 1..MaxRun}

Inputs == ShortInputs \cup LongFractions \cup LongNumbers

\* stored values given to the tuple constructor FixedPoint(v)
StoredValues(t) ==
  {v \in (-MaxStored)..MaxStored : InRange(t, v)}
    \cup {TMin(t), TMin(t) + 1, TMax(t) - 1, TMax(t)}
    \cup {v \in {m * 10^k : m \in {-12, -1, 1, 12}, k \in 2..3} : InRange(t, v)}

\* digit groups of a literal: up to MaxGroup digits, with and without an
\* underscore between two digits
LiteralDigits == {"0", "1"}

RECURSIVE DigitGroups(_)
DigitGroups(n) ==
  IF n = 0 THEN {<<>>}
  ELSE {Append(g, c) : g \in DigitGroups(n - 1), c \in LiteralDigits}

Underscored(g) ==
  {g} \cup {SubSeq(g, 1, i) \o <<"_">> \o SubSeq(g, i + 1, Len(g)) :
               i \in 1..(Len(g) - 1)}

Groups == UNION {Underscored(g) : g \in UNION {DigitGroups(n) : n \in 1..MaxGroup}}

\* literal texts: digits, or digits '.' digits
LiteralTokens == Groups \cup {i \o <<".">> \o f : i \in Groups, f \in Groups}

\* scalars a value is divided by
Divisors(t) ==
  {n \in (-MaxDivisor)..MaxDivisor : InRange(t, n)} \cup {TMin(t), TMax(t)}

----------------------------------------------------------------------------
(* The state machine: a program that uses one instantiation FixedPoint<T,D> *)

Init ==
  /\ ty \in Types
  /\ D \in 0..MaxD
  /\ overflow_checks \in BOOLEAN
  /\ pc = "start"
  /\ origin = "none"
  /\ input = <<>>
  /\ parsed = None
  /\ value = None
  /\ text = NoText
  /\ reparsed = None
  /\ parts = NoParts
  /\ divisor = 0
  /\ quotient = None
  /\ literal = NoLiteral

\* string.parse::<FixedPoint<T, D>>()
FromStr ==
  /\ pc = "start"
  /\ \E s \in Inputs :
       /\ input' = s
       /\ parsed' = from_str(ty, D, s, overflow_checks)
  /\ value' = IF parsed'.kind = "ok" THEN parsed' ELSE None
  /\ origin' = "parsed"
  /\ pc' = "parsed"
  /\ UNCHANGED <<ty, D, overflow_checks, text, reparsed, parts, divisor,
                 quotient, literal>>

\* FixedPoint(v): the tuple constructor, the field is public
Construct ==
  /\ pc = "start"
  /\ \E v \in StoredValues(ty) : value' = Ok(v)
  /\ origin' = "built"
  /\ pc' = "built"
  /\ UNCHANGED <<ty, D, overflow_checks, input, parsed, text, reparsed,
                 parts, divisor, quotient, literal>>

\* format!("{}", value)
Fmt ==
  /\ pc \in {"parsed", "built", "literal"}
  /\ value.kind = "ok"
  /\ text' = fmt(ty, D, value.val, overflow_checks)
  /\ pc' = "formatted"
  /\ UNCHANGED <<ty, D, overflow_checks, origin, input, parsed, value,
                 reparsed, parts, divisor, quotient, literal>>

\* text.parse::<FixedPoint<T, D>>() of the formatted text
Reparse ==
  /\ pc = "formatted"
  /\ origin = "parsed"
  /\ text.kind = "ok"
  /\ reparsed' = from_str(ty, D, text.val, overflow_checks)
  /\ pc' = "reparsed"
  /\ UNCHANGED <<ty, D, overflow_checks, origin, input, parsed, value, text,
                 parts, divisor, quotient, literal>>

\* value / n
DivScalar ==
  /\ pc = "built"
  /\ \E n \in Divisors(ty) :
       /\ divisor' = n
       /\ quotient' = div(ty, value.val, n)
  /\ pc' = "divided"
  /\ UNCHANGED <<ty, D, overflow_checks, origin, input, parsed, value, text,
                 reparsed, parts, literal>>

\* (value.integer(), value.decimal())
Decompose ==
  /\ pc = "built"
  /\ parts' = LET i == integer(ty, D, value.val, overflow_checks)
                  r == decimal(ty, D, value.val, overflow_checks)
              IN IF i.panic \/ r.panic
                 THEN [kind |-> "panic", integer |-> 0, decimal |-> 0]
                 ELSE [kind |-> "ok", integer |-> i.val, decimal |-> r.val]
  /\ pc' = "decomposed"
  /\ UNCHANGED <<ty, D, overflow_checks, origin, input, parsed, value, text,
                 reparsed, divisor, quotient, literal>>

\* fixed!(literal) and fixed!(literal, precision), for the literals with the
\* suffix T that make a FixedPoint<T, D> and whose value T holds
FixedMacro ==
  /\ pc = "start"
  /\ \E negative \in BOOLEAN, token \in LiteralTokens,
        precision \in {NoPrecision} \cup 0..MaxD :
       /\ fixed_precision(token, precision) = D
       /\ negative => Signed(ty)
       /\ ~fixed(negative, token, precision).big
       /\ InRange(ty, fixed(negative, token, precision).val)
       /\ literal' = [negative |-> negative, token |-> token,
                      precision |-> precision]
       /\ value' = Ok(fixed(negative, token, precision).val)
  /\ origin' = "literal"
  /\ pc' = "literal"
  /\ UNCHANGED <<ty, D, overflow_checks, input, parsed, text, reparsed, parts,
                 divisor, quotient>>

Next ==
  FromStr \/ Construct \/ FixedMacro \/ Fmt \/ Reparse \/ DivScalar \/ Decompose

Spec == Init /\ [][Next]_vars

----------------------------------------------------------------------------
(* Vocabulary of the claims *)

\* 10^D is representable in T
PowFits(t, d) == ~Pow10(t, d, TRUE).panic

\* the quotient of s by n # 0 truncated toward zero, from the division of the
\* magnitudes (the most negative 32-bit value has no magnitude in 32 bits:
\* 2^31 \div m is taken from (2^31 - 1) \div m)
ExpectedQuotient(s, n) ==
  LET min32 == -2147483647 - 1
      max32 == 2147483647
  IN IF n = min32 THEN (IF s = min32 THEN 1 ELSE 0)
     ELSE IF n = 1 THEN s
     ELSE LET m == IF n < 0 THEN -n ELSE n
              q == IF s = min32
                   THEN (max32 \div m) + (IF max32 % m = m - 1 THEN 1 ELSE 0)
                   ELSE (IF s < 0 THEN -s ELSE s) \div m
          IN IF (s < 0) = (n < 0) THEN q ELSE -q

\* the number a string of digits writes, negated when neg (accumulated
\* downward, so that the most negative value can be read)
RECURSIVE DigitsValue(_, _)
DigitsValue(ds, neg) ==
  IF ds = <<>> THEN 0
  ELSE LET p == DigitsValue(SubSeq(ds, 1, Len(ds) - 1), neg) * 10
           d == DigitVal(ds[Len(ds)])
       IN IF neg THEN p - d ELSE p + d

IsDigits(ds) == ds # <<>> /\ \A i \in 1..Len(ds) : ds[i] \in DigitSet

\* a string without its trailing '0' characters
RECURSIVE StripTrailingZeros(_)
StripTrailingZeros(ds) ==
  IF ds # <<>> /\ ds[Len(ds)] = "0"
  THEN StripTrailingZeros(SubSeq(ds, 1, Len(ds) - 1))
  ELSE ds

\* n >= 0 written with exactly w digits (n < 10^w)
RECURSIVE FixedWidth(_, _)
FixedWidth(n, w) ==
  IF w = 0 THEN <<>> ELSE Append(FixedWidth(n \div 10, w - 1), DigitChar(n % 10))

\* the text before the first '.', without a leading '-', and the text after it
IntegerText(s) ==
  LET head == Split(s)[1]
  IN IF head # <<>> /\ head[1] = "-" THEN SubSeq(head, 2, Len(head)) ELSE head

FractionText(s) == Split(s)[2]


----------------------------------------------------------------------------
(* C1 *)

\* C1: when 10^D is representable in T, the value v of an accepted string is
\* formatted without a panic, and parsing that text again succeeds with the
\* stored integer of v (so that it formats to the same text again).
C1_RoundTrip ==
  (origin = "parsed" /\ value.kind = "ok" /\ PowFits(ty, D)) =>
    /\ pc \in {"formatted", "reparsed"} => text.kind = "ok"
    /\ pc = "reparsed" =>
         /\ reparsed = Ok(value.val)
         /\ fmt(ty, D, reparsed.val, overflow_checks) = text

\* "-0.1" was parsed as FixedPoint<i16, 2>, printed and parsed again
C1_Witness ==
  /\ pc = "reparsed" /\ ty = "i16" /\ D = 2
  /\ input = <<"-", "0", ".", "1">>
  /\ value = Ok(-10)
  /\ text.val = <<"-", "0", ".", "1">>
  /\ reparsed = Ok(-10)

----------------------------------------------------------------------------
(* The grammar and the exact value of a string, for C2 to C5 *)

\* [-]digits['.'digits]
MatchesGrammar(s) ==
  LET body == IF s # <<>> /\ s[1] = "-" THEN SubSeq(s, 2, Len(s)) ELSE s
      pieces == Split(body)
  IN /\ Len(pieces) \in {1, 2}
     /\ \A i \in 1..Len(pieces) : IsDigits(pieces[i])

\* the digits of the scaled value of a string of the grammar: the integer
\* digits, then the first d fractional digits, zeros added when there are less
ScaledDigits(d, s) ==
  LET body == IF s[1] = "-" THEN SubSeq(s, 2, Len(s)) ELSE s
      pieces == Split(body)
      frac == IF Len(pieces) = 2 THEN pieces[2] ELSE <<>>
  IN pieces[1] \o (IF Len(frac) >= d THEN SubSeq(frac, 1, d)
                                     ELSE frac \o Zeros(d - Len(frac)))

\* the number a string of digits writes, negated when neg, as long as it is
\* a 32-bit value: big when it is not
RECURSIVE ExactValue(_, _)
ExactValue(ds, neg) ==
  IF ds = <<>> THEN [big |-> FALSE, val |-> 0]
  ELSE LET p == ExactValue(SubSeq(ds, 1, Len(ds) - 1), neg)
           d == DigitVal(ds[Len(ds)])
       IN IF p.big THEN p
          ELSE IF neg
          THEN IF p.val < ((-2147483647 - 1) + d + 9) \div 10
               THEN [big |-> TRUE, val |-> 0]
               ELSE [big |-> FALSE, val |-> p.val * 10 - d]
          ELSE IF p.val > (2147483647 - d) \div 10
               THEN [big |-> TRUE, val |-> 0]
               ELSE [big |-> FALSE, val |-> p.val * 10 + d]

\* the exact scaled value of a string of the grammar: the sign, the integer
\* part times 10^D, the fractional part cut to D digits
Scaled(d, s) == ExactValue(ScaledDigits(d, s), s[1] = "-")

FitsT(t, d, s) == ~Scaled(d, s).big /\ InRange(t, Scaled(d, s).val)

----------------------------------------------------------------------------
(* C2 *)

\* C2: from_str returns Err(()) for every string that is not of the grammar
\* [-]digits['.'digits], for every T and D.
C2_MalformedRejected ==
  (pc = "parsed" /\ ~MatchesGrammar(input)) => parsed = Err

----------------------------------------------------------------------------
(* C3 *)

\* C3: for every string of the grammar whose exact scaled value is outside
\* the range of T, from_str returns Err(()): never Ok, never a panic.
C3_OverflowIsError ==
  (pc = "parsed" /\ MatchesGrammar(input) /\ ~FitsT(ty, D, input)) =>
    parsed = Err

----------------------------------------------------------------------------
(* C4 *)

\* C4: for every string of the grammar whose exact scaled value fits T,
\* from_str returns Ok with that value: sign * (|I| * 10^D + F * 10^(D-L))
\* when D >= L, sign * (|I| * 10^D + F \div 10^(L-D)) when D < L.
C4_ScalingAndTruncation ==
  (pc = "parsed" /\ MatchesGrammar(input) /\ FitsT(ty, D, input)) =>
    parsed = Ok(Scaled(D, input).val)

----------------------------------------------------------------------------
(* C5 *)

\* C5: from_str returns Ok or Err for every string, T and D: it never panics.
C5_NeverPanics ==
  pc = "parsed" => parsed.kind \in {"ok", "err"}

----------------------------------------------------------------------------
(* C6 *)

\* C6: when 10^D is representable in T, integer() * 10^D + decimal() equals
\* the stored value, integer() is stored / 10^D truncated toward zero, and
\* decimal() is smaller in magnitude than 10^D and zero or of the sign of
\* the stored value.
C6_Decomposition ==
  (pc = "decomposed" /\ PowFits(ty, D)) =>
    /\ parts.kind = "ok"
    /\ parts.integer * 10^D + parts.decimal = value.val
    /\ parts.integer = ExpectedQuotient(value.val, 10^D)
    /\ -(10^D) < parts.decimal /\ parts.decimal < 10^D
    /\ (value.val >= 0 => parts.decimal >= 0)
    /\ (value.val <= 0 => parts.decimal <= 0)

\* -110 at D = 2 decomposes into -1 and -10
C6_Witness ==
  /\ pc = "decomposed" /\ ty = "i16" /\ D = 2 /\ value = Ok(-110)
  /\ parts = [kind |-> "ok", integer |-> -1, decimal |-> -10]

----------------------------------------------------------------------------
(* C7 *)

\* |stored| modulo 10^d, from the modulus of TLA+
MagnitudeRem(d, stored) ==
  LET m == stored % 10^d
  IN IF stored >= 0 THEN m ELSE (10^d - m) % 10^d

\* the fraction the claim describes: "0" when D = 0 or the remainder is
\* zero, else the D digits of |stored % 10^D| without the trailing zeros
ExpectedFraction(d, stored) ==
  LET r == MagnitudeRem(d, stored)
  IN IF d = 0 \/ r = 0 THEN <<"0">> ELSE StripTrailingZeros(FixedWidth(r, d))

\* C7: when 10^D is representable in T, Display never panics and prints
\* "<integer>.<fraction>": the integer part is written in digits without
\* leading zeros, the fraction is the expected one, has between 1 and
\* max(D, 1) digits and ends in '0' only when it is "0", the printed number
\* is stored / 10^D exactly, and the width counter of the stripping loop
\* stays at least 1.
C7_CanonicalFormat ==
  (pc \in {"formatted", "reparsed"} /\ PowFits(ty, D)) =>
    /\ text.kind = "ok"
    /\ Len(Split(text.val)) = 2
    /\ LET ip == IntegerText(text.val)
           fp == FractionText(text.val)
           neg == value.val < 0
           r == MagnitudeRem(D, value.val)
       IN /\ IsDigits(ip) /\ IsDigits(fp)
          /\ (Len(ip) > 1 => ip[1] # "0")
          /\ fp = ExpectedFraction(D, value.val)
          /\ 1 <= Len(fp) /\ Len(fp) <= (IF D = 0 THEN 1 ELSE D)
          /\ (fp[Len(fp)] = "0" => fp = <<"0">>)
          /\ IF D = 0 THEN DigitsValue(ip, neg) = value.val
             ELSE DigitsValue(ip, neg) * 10^D
                    + DigitsValue(fp, neg) * 10^(D - Len(fp)) = value.val
          /\ (D > 0 /\ r # 0) =>
               LET st == StripLoop(r, D, overflow_checks)
               IN ~st.panic /\ st.length >= 1 /\ st.length = Len(fp)

\* 1200 at D = 4 prints "0.12": two trailing zeros are stripped
C7_Witness ==
  /\ pc = "formatted" /\ ty = "i16" /\ D = 4 /\ value = Ok(1200)
  /\ text = TextOk(<<"0", ".", "1", "2">>)

----------------------------------------------------------------------------
(* C8 *)

----------------------------------------------------------------------------
(* C9 *)

\* the digits of a literal's text, and those after its decimal point
AllDigits(token) == SelectSeq(token, LAMBDA c : c \in DigitSet)

DigitsAfterPoint(token) ==
  IF \E i \in 1..Len(token) : token[i] = "."
  THEN LET k == CHOOSE i \in 1..Len(token) : token[i] = "."
       IN SelectSeq(SubSeq(token, k + 1, Len(token)), LAMBDA c : c \in DigitSet)
  ELSE <<>>

\* n * 10^k, or -1 when that is 2^31 or more
RECURSIVE TimesPow10(_, _)
TimesPow10(n, k) ==
  IF k = 0 THEN n
  ELSE IF n > 214748364 THEN -1
  ELSE TimesPow10(n * 10, k - 1)

\* C9: fixed! makes a FixedPoint<T, D> whose D is the explicit precision,
\* else the number of digits after the decimal point, and whose stored
\* integer is the literal's value times 10^D truncated toward zero: with N
\* the number all the digits write and L the number of digits after the
\* point, sign * N * 10^(D-L) when D >= L and sign * (N \div 10^(L-D))
\* when D < L.  Underscores are ignored.
C9_LiteralConstruction ==
  pc = "literal" =>
    LET L == Len(DigitsAfterPoint(literal.token))
        N == DigitsValue(AllDigits(literal.token), FALSE)
        magnitude == IF D >= L THEN TimesPow10(N, D - L)
                               ELSE N \div 10^(L - D)
    IN /\ magnitude >= 0
       /\ D = (IF literal.precision = NoPrecision THEN L ELSE literal.precision)
       /\ decimal_length(D) = D
       /\ value = Ok(IF literal.negative THEN -magnitude ELSE magnitude)

\* fixed!(1_1.0_1u16) stores 1101 with D = 2
C9_Witness ==
  /\ pc = "literal" /\ ty = "u16" /\ D = 2
  /\ literal = [negative |-> FALSE,
                token |-> <<"1", "_", "1", ".", "0", "_", "1">>,
                precision |-> NoPrecision]
  /\ value = Ok(1101)

----------------------------------------------------------------------------
(* C10 *)

\* C10 as stated: for every non-zero scalar n, value / n is a value whose
\* stored integer is stored / n truncated toward zero.
C10_Original ==
  (pc = "divided" /\ divisor # 0) =>
    /\ quotient.kind = "ok"
    /\ quotient.val = ExpectedQuotient(value.val, divisor)

\* C10 amended: the same, for every non-zero n except the pair stored =
\* T::MIN, n = -1 of a signed T, whose quotient T cannot hold: there the
\* division panics.  The precision D is unchanged.
C10_ScalarDivision ==
  (pc = "divided" /\ divisor # 0) =>
    IF Signed(ty) /\ value.val = TMin(ty) /\ divisor = -1
    THEN quotient.kind = "panic"
    ELSE /\ quotient.kind = "ok"
         /\ InRange(ty, quotient.val)
         /\ quotient.val = ExpectedQuotient(value.val, divisor)

\* stored 10 at D = 1 divided by 3 gives stored 3, which prints "0.3"
C10_Witness ==
  /\ pc = "divided" /\ D = 1 /\ value = Ok(10) /\ divisor = 3
  /\ quotient = Ok(3)
  /\ fmt(ty, D, quotient.val, overflow_checks) = TextOk(<<"0", ".", "3">>)

====
